---- MODULE Spec2Model ----
(***************************************************************************)
(* cosmic-idle: the idle orchestrator (src/src/main.rs), the fade-to-black *)
(* surface (src/src/fade_black.rs) and the org.freedesktop.ScreenSaver     *)
(* inhibitor registry (src/src/freedesktop_screensaver.rs).                *)
(*                                                                         *)
(* One action per handler the reactor dispatches.  Rust's Option<T> is a   *)
(* set with at most one element: None is {} and Some(x) is {x}.            *)
(***************************************************************************)
EXTENDS Integers, Sequences, FiniteSets, TLC

\* ------------------------------------------------------------------ bounds

MaxOutputs == 2          \* displays announced at the same time
MaxChannel == 2          \* messages waiting in the calloop channel
MaxInhibitors == 2       \* inhibitors alive at the same time
MaxCookie == 2           \* Inhibit calls made

\* --------------------------------------------------------------- constants

FADE_TIME == 2000        \* fade_black.rs:21, in ms

None == {}
Some(x) == {x}

\* A u32 is a pair <<high, low>> of 16-bit halves, so that the counter keeps
\* its width; U32(0, 1) is the number 1.
U16 == 65536
U32(high, low) == <<high, low>>
U32_MAX == U32(U16 - 1, U16 - 1)

\* u32::wrapping_add(x, 1), what AtomicU32::fetch_add(1) stores.
wrapping_add_1(x) ==
    IF x[2] < U16 - 1 THEN U32(x[1], x[2] + 1)
    ELSE U32((x[1] + 1) % U16, 0)

\* Time advances in steps of half the fade time; a fade older than
\* MaxElapsed is past FADE_TIME whatever its age, and its age stops there.
TickMs == FADE_TIME \div 2
MaxElapsed == FADE_TIME + TickMs

OutputNames == 1..MaxOutputs
Clients == {":1.1", ":1.2"}

\* Values a configured time takes (ms); the spec's scenario uses both.
ScreenOffTimes == {None, Some(600000)}
SuspendOnBatteryTimes == {Some(600000)}
SuspendOnAcTimes == {None, Some(1200000)}

\* CosmicIdleConfig: three Option<u32>.
Configs ==
    [screen_off_time : ScreenOffTimes,
     suspend_on_battery_time : SuspendOnBatteryTimes,
     suspend_on_ac_time : SuspendOnAcTimes]

VARIABLES
    conf,                          \* State.conf
    on_battery,                    \* State.on_battery
    screensaver_inhibited,         \* OrchestratorState.screensaver_inhibited
    screen_off_idle_notification,  \* State.screen_off_idle_notification
    suspend_idle_notification,     \* State.suspend_idle_notification
    outputs,                       \* State.outputs, a Vec<Output>
    live_notifications,            \* compositor: ext_idle_notification_v1 objects not destroyed
    idled,                         \* compositor: notification objects that are idle
    superseded,                    \* compositor: it may still send events for a destroyed notification object
    live_surfaces,                 \* compositor: fade-to-black surfaces not destroyed
    callbacks,                     \* compositor: surfaces with a frame callback requested
    stale_surface,                 \* compositor: it may still send events for a destroyed fade surface
    channel,                       \* calloop channel, sender side to reactor
    inhibitors,                    \* Screensaver.inhibitors, a Vec<Inhibitor>
    last_cookie,                   \* Screensaver.last_cookie, an AtomicU32
    inhibit_calls,                 \* history: Inhibit calls made
    bus_op,                        \* history: the registry's last operation and how many it removed
    main_thread,                   \* the reactor's thread: "dispatch", "status" or "panicked"
    fade_done_calls,               \* history: fade_done() calls since the last screen-off Idled
    idle_outputs,                  \* history: outputs the last screen-off Idled gave a fade surface
    fx                             \* what the reactor's last dispatch did

vars ==
    <<conf, on_battery, screensaver_inhibited, screen_off_idle_notification,
      suspend_idle_notification, outputs, live_notifications, idled,
      superseded, live_surfaces, callbacks, stale_surface, channel, inhibitors, last_cookie,
      inhibit_calls, bus_op, main_thread, fade_done_calls, idle_outputs, fx>>

\* ----------------------------------------------------------------- helpers

Min(a, b) == IF a < b THEN a ELSE b

\* The smallest object id not in use: a protocol object gets a new identity.
FreshId(used) == CHOOSE i \in 1..(Cardinality(used) + 1) : i \notin used

Range(seq) == {seq[i] : i \in 1..Len(seq)}

\* Mutant: retain keeps nothing.
Retain_None(seq, drop) == <<>>

RECURSIVE Retain(_, _)
\* Vec::retain with the predicate "is not in drop".
Retain(seq, drop) ==
    IF seq = <<>> THEN <<>>
    ELSE IF Head(seq) \in drop THEN Retain(Tail(seq), drop)
    ELSE <<Head(seq)>> \o Retain(Tail(seq), drop)

\* What one dispatch of the reactor did, empty at its start: the handler
\* (op), what it was for (purpose, is_idle, surface), whether it repeats a
\* recompute on an unchanged state, and its requests to the outside: the
\* notification objects created and destroyed, the surfaces destroyed, the
\* set_mode requests, the fade_done calls and the suspend commands run.
Fx(op) ==
    [op |-> op, purpose |-> "none", is_idle |-> FALSE, surface |-> 0,
     repeat |-> FALSE, created |-> {}, destroyed |-> {}, dropped |-> {},
     set_mode |-> {}, fade_done |-> 0, suspend |-> 0]

\* The registry's last operation: which one, and how many inhibitors it
\* removed.
BusOp(op, removed) == [op |-> op, removed |-> removed]

\* The reactor's state and the compositor's, as one record a handler transforms.
St(op) ==
    [conf |-> conf,
     on_battery |-> on_battery,
     screensaver_inhibited |-> screensaver_inhibited,
     screen_off_idle_notification |-> screen_off_idle_notification,
     suspend_idle_notification |-> suspend_idle_notification,
     outputs |-> outputs,
     live_notifications |-> live_notifications,
     idled |-> idled,
     superseded |-> superseded,
     live_surfaces |-> live_surfaces,
     callbacks |-> callbacks,
     stale_surface |-> stale_surface,
     main_thread |-> main_thread,
     fade_done_calls |-> fade_done_calls,
     idle_outputs |-> idle_outputs,
     fx |-> Fx(op)]

\* The handler's result becomes the next state.
Commit(s) ==
    /\ conf' = s.conf
    /\ on_battery' = s.on_battery
    /\ screensaver_inhibited' = s.screensaver_inhibited
    /\ screen_off_idle_notification' = s.screen_off_idle_notification
    /\ suspend_idle_notification' = s.suspend_idle_notification
    /\ outputs' = s.outputs
    /\ live_notifications' = s.live_notifications
    /\ idled' = s.idled
    /\ superseded' = s.superseded
    /\ live_surfaces' = s.live_surfaces
    /\ callbacks' = s.callbacks
    /\ stale_surface' = s.stale_surface
    /\ main_thread' = s.main_thread
    /\ fade_done_calls' = s.fade_done_calls
    /\ idle_outputs' = s.idle_outputs
    /\ fx' = s.fx

\* ------------------------------------------------------- IdleNotification

\* IdleNotification::new: get_idle_notification(time, seat) makes a new
\* object.  The id of an object destroyed in the same dispatch is not free
\* yet: the compositor has not acknowledged its deletion.
IdleNotificationNew(s, time) ==
    [id |-> FreshId({n.id : n \in s.live_notifications} \cup s.fx.destroyed),
     time |-> time]

\* The identity of the proxy of a destroyed notification object: it equals
\* no live object's, also when the protocol id has been given out again.
SupersededId == 0

\* Mutant: the old notification object is never destroyed.
IdleNotificationDrop_Leak(s, old) == s

\* impl Drop for IdleNotification: notification.destroy().  The compositor
\* may have sent events for the object that the reactor has not read yet.
IdleNotificationDrop(s, old) ==
    [s EXCEPT !.live_notifications = @ \ old,
              !.idled = @ \ {n.id : n \in old},
              !.superseded = @ \/ old # {},
              !.fx.destroyed = @ \cup {n.id : n \in old}]

\* ------------------------------------------------------- FadeBlackSurface

\* FadeBlackSurface::new: surface, layer surface and viewport are created and
\* the surface committed without a buffer; started = Instant::now().
FadeBlackSurfaceNew(s) ==
    [surface |-> FreshId(s.live_surfaces \cup s.fx.dropped),
     has_first_configure |-> FALSE,
     elapsed |-> 0]

\* Mutant: a dropped fade surface leaves its protocol objects alive.
FadeBlackSurfaceDrop_Leak(s, old) == s

\* The identity of the proxy of a destroyed surface (and of its layer
\* surface): it equals no live object's.
StaleSurfaceId == 0

\* impl Drop for FadeBlackSurface: viewport, layer surface and surface are
\* destroyed; the compositor drops the surface's frame callback with it,
\* unless it has sent the callback, or a configure, before.
FadeBlackSurfaceDrop(s, old) ==
    [s EXCEPT !.live_surfaces = @ \ {f.surface : f \in old},
              !.callbacks = @ \ {f.surface : f \in old},
              !.stale_surface = @ \/ old # {},
              !.fx.dropped = @ \cup {f.surface : f \in old}]

\* Mutant: the fade never counts as done.
is_done_Never(fade_surface) == FALSE

\* Mutant: the fade counts as done at FADE_TIME already.
is_done_AtFadeTime(fade_surface) == fade_surface.elapsed >= FADE_TIME

\* FadeBlackSurface::is_done: started.elapsed() > FADE_TIME.
is_done(fade_surface) == fade_surface.elapsed > FADE_TIME

\* FadeBlackSurface::update: attach a buffer of the eased opacity, request a
\* frame callback and commit.
FadeUpdate(s, fade_surface) ==
    [s EXCEPT !.callbacks = @ \cup {fade_surface.surface}]

\* ------------------------------------------------------------------ State

\* output_power.set_mode(mode) on outputs[i].
SetMode(s, i, mode) ==
    [s EXCEPT !.outputs[i].output_power = mode,
              !.fx.set_mode = @ \cup {<<s.outputs[i].global_name, mode>>}]

\* Mutant: an idle output is powered off at once, next to its new fade surface.
UpdateScreenOffIdleOutput_PowerOff(s, is_idle, i) ==
    LET old == s.outputs[i].fade_surface IN
    IF is_idle
    THEN LET new == FadeBlackSurfaceNew(s)
             s1 == [s EXCEPT !.live_surfaces = @ \cup {new.surface},
                             !.outputs[i].fade_surface = Some(new)]
         IN  SetMode(FadeBlackSurfaceDrop(s1, old), i, "Off")
    ELSE LET s1 == [s EXCEPT !.outputs[i].fade_surface = None]
         IN  SetMode(FadeBlackSurfaceDrop(s1, old), i, "On")

\* Mutant: a resumed output loses its fade surface but is not powered on.
UpdateScreenOffIdleOutput_NoOn(s, is_idle, i) ==
    LET old == s.outputs[i].fade_surface IN
    IF is_idle
    THEN LET new == FadeBlackSurfaceNew(s)
             s1 == [s EXCEPT !.live_surfaces = @ \cup {new.surface},
                             !.outputs[i].fade_surface = Some(new)]
         IN  FadeBlackSurfaceDrop(s1, old)
    ELSE LET s1 == [s EXCEPT !.outputs[i].fade_surface = None]
         IN  FadeBlackSurfaceDrop(s1, old)

\* One iteration of the loop of update_screen_off_idle, on outputs[i].
UpdateScreenOffIdleOutput(s, is_idle, i) ==
    LET old == s.outputs[i].fade_surface IN
    IF is_idle
    THEN LET new == FadeBlackSurfaceNew(s)
             s1 == [s EXCEPT !.live_surfaces = @ \cup {new.surface},
                             !.outputs[i].fade_surface = Some(new)]
         IN  FadeBlackSurfaceDrop(s1, old)
    ELSE LET s1 == [s EXCEPT !.outputs[i].fade_surface = None]
         IN  SetMode(FadeBlackSurfaceDrop(s1, old), i, "On")

RECURSIVE UpdateScreenOffIdleFrom(_, _, _)
UpdateScreenOffIdleFrom(s, is_idle, i) ==
    IF i > Len(s.outputs) THEN s
    ELSE UpdateScreenOffIdleFrom(UpdateScreenOffIdleOutput(s, is_idle, i), is_idle, i + 1)

\* State::update_screen_off_idle.  idle_outputs records the outputs an Idled
\* event reached.
update_screen_off_idle(s, is_idle) ==
    UpdateScreenOffIdleFrom(
        [s EXCEPT !.idle_outputs =
            IF is_idle THEN {o.global_name : o \in Range(s.outputs)} ELSE {}],
        is_idle, 1)

\* Mutant: the suspend command is run on Resumed and on recreation as well.
update_suspend_idle_Always(s, is_idle) ==
    [s EXCEPT !.fx.suspend = @ + 1, !.main_thread = "status"]

\* State::update_suspend_idle: when idle, Command::new("systemctl")
\* .arg("suspend").status() starts the command and waits for it to exit.
update_suspend_idle(s, is_idle) ==
    IF is_idle
    THEN [s EXCEPT !.fx.suspend = @ + 1, !.main_thread = "status"]
    ELSE s

\* The timeout recreate_notification wants for the suspend subscription.
suspend_time(s) ==
    IF s.on_battery THEN s.conf.suspend_on_battery_time ELSE s.conf.suspend_on_ac_time

\* Mutant: a subscription is replaced on every recompute.
TimeDiffers_Always(notification, time) == TRUE

\* The condition under which recreate_notification replaces a subscription.
TimeDiffers(notification, time) == {x.time : x \in notification} # time

\* Mutant: the screen-off subscription is replaced without forcing the
\* outputs back on.
RecreateScreenOff_NoUpdate(s) ==
    IF TimeDiffers(s.screen_off_idle_notification, s.conf.screen_off_time)
    THEN LET old == s.screen_off_idle_notification
             new == {IdleNotificationNew(s, time) : time \in s.conf.screen_off_time}
             s1 == [s EXCEPT !.live_notifications = @ \cup new,
                             !.fx.created = @ \cup {n.id : n \in new},
                             !.screen_off_idle_notification = new]
         IN  IdleNotificationDrop(s1, old)
    ELSE s

\* The screen-off half of recreate_notification.
RecreateScreenOff(s) ==
    IF TimeDiffers(s.screen_off_idle_notification, s.conf.screen_off_time)
    THEN LET old == s.screen_off_idle_notification
             new == {IdleNotificationNew(s, time) : time \in s.conf.screen_off_time}
             s1 == [s EXCEPT !.live_notifications = @ \cup new,
                             !.fx.created = @ \cup {n.id : n \in new},
                             !.screen_off_idle_notification = new]
         IN  update_screen_off_idle(IdleNotificationDrop(s1, old), FALSE)
    ELSE s

\* The suspend half of recreate_notification.
RecreateSuspend(s) ==
    IF TimeDiffers(s.suspend_idle_notification, suspend_time(s))
    THEN LET old == s.suspend_idle_notification
             new == {IdleNotificationNew(s, time) : time \in suspend_time(s)}
             s1 == [s EXCEPT !.live_notifications = @ \cup new,
                             !.fx.created = @ \cup {n.id : n \in new},
                             !.suspend_idle_notification = new]
         IN  update_suspend_idle(IdleNotificationDrop(s1, old), FALSE)
    ELSE s

\* State::recreate_notification.
recreate_notification(s) == RecreateSuspend(RecreateScreenOff(s))

\* State::handle_event, Event::OnBattery(value).
handle_event_OnBattery(s, value) == [s EXCEPT !.on_battery = value]

\* The ScreensaverInhibit(value) message: the flag is stored and the idle
\* timer set recomputed.
handle_event_ScreensaverInhibit(s, value) ==
    recreate_notification([s EXCEPT !.screensaver_inhibited = value])

\* State::fade_done: schedules the one-shot delayed lock action.
fade_done(s) ==
    [s EXCEPT !.fx.fade_done = @ + 1, !.fade_done_calls = @ + 1]

\* Mutant: every completed fade counts as the last one.
AllOutputsDone_Always(s) == TRUE

\* "All outputs are done fading".
AllOutputsDone(s) == \A i \in 1..Len(s.outputs) : s.outputs[i].fade_surface = None

\* ----------------------------------------------------------------- initial

\* main(): the State as constructed, before the first recreate_notification.
Constructed(c, outs) ==
    [conf |-> c,
     on_battery |-> FALSE,
     screensaver_inhibited |-> FALSE,
     screen_off_idle_notification |-> None,
     suspend_idle_notification |-> None,
     outputs |-> outs,
     live_notifications |-> {},
     idled |-> {},
     superseded |-> FALSE,
     live_surfaces |-> {},
     callbacks |-> {},
     stale_surface |-> FALSE,
     main_thread |-> "dispatch",
     fade_done_calls |-> 0,
     idle_outputs |-> {},
     fx |-> Fx("main")]

\* An Output as bound from a wl_output global.
OutputNew(name) ==
    [global_name |-> name, output_power |-> "On", fade_surface |-> None]

\* The outputs the registry lists at startup.
InitialOutputs == {<<>>, <<OutputNew(1)>>}

\* The state s is the current one.
IsState(s) ==
    /\ conf = s.conf
    /\ on_battery = s.on_battery
    /\ screensaver_inhibited = s.screensaver_inhibited
    /\ screen_off_idle_notification = s.screen_off_idle_notification
    /\ suspend_idle_notification = s.suspend_idle_notification
    /\ outputs = s.outputs
    /\ live_notifications = s.live_notifications
    /\ idled = s.idled
    /\ superseded = s.superseded
    /\ live_surfaces = s.live_surfaces
    /\ callbacks = s.callbacks
    /\ stale_surface = s.stale_surface
    /\ main_thread = s.main_thread
    /\ fade_done_calls = s.fade_done_calls
    /\ idle_outputs = s.idle_outputs
    /\ fx = s.fx

\* main() up to the event loop: the State is constructed from the loaded
\* config and the listed outputs, and recreate_notification runs once.
Init ==
    /\ \E c \in Configs, outs \in InitialOutputs :
           IsState(recreate_notification(Constructed(c, outs)))
    /\ channel = <<>>
    /\ inhibitors = <<>>
    /\ last_cookie = U32(0, 0)
    /\ inhibit_calls = 0
    /\ bus_op = BusOp("serve", 0)

\* ---------------------------------------------------------------- reactor

Bus == <<channel, inhibitors, last_cookie, inhibit_calls, bus_op>>

\* The orchestrator's state and the compositor's view of its objects.
Reactor ==
    <<conf, on_battery, screensaver_inhibited, screen_off_idle_notification,
      suspend_idle_notification, outputs, live_notifications, idled,
      live_surfaces, callbacks, fade_done_calls, idle_outputs, fx>>

\* The last dispatch ran recreate_notification.
Recomputed(f) ==
    \/ f.op \in {"main", "ConfigUpdate"}
    \/ f.op = "HandleEvent" /\ f.purpose = "ScreensaverInhibit"

\* ConfigWatchSource callback: conf.update_keys, then recreate_notification.
ConfigUpdate(c) ==
    /\ main_thread = "dispatch"
    /\ Commit(recreate_notification(
                  [St("ConfigUpdate") EXCEPT
                      !.conf = c,
                      !.fx.repeat = Recomputed(fx) /\ c = conf]))
    /\ UNCHANGED Bus

\* The channel receiver's callback: handle_event on the next message.
HandleEvent ==
    /\ main_thread = "dispatch"
    /\ channel # <<>>
    /\ LET event == Head(channel)
           s == [St("HandleEvent") EXCEPT
                     !.fx.purpose = event.type,
                     !.fx.repeat = /\ event.type = "ScreensaverInhibit"
                                   /\ Recomputed(fx)
                                   /\ event.value = screensaver_inhibited]
       IN  Commit(IF event.type = "OnBattery"
                  THEN handle_event_OnBattery(s, event.value)
                  ELSE handle_event_ScreensaverInhibit(s, event.value))
    /\ channel' = Tail(channel)
    /\ UNCHANGED <<inhibitors, last_cookie, inhibit_calls, bus_op>>

\* Mutant: an event that is not for the suspend subscription is taken as one
\* of the screen-off subscription.
DispatchIdleNotification_NoIdentity(s, id, is_idle) ==
    IF {x.id : x \in s.suspend_idle_notification} = Some(id)
    THEN update_suspend_idle([s EXCEPT !.fx.purpose = "suspend"], is_idle)
    ELSE update_screen_off_idle(
             [s EXCEPT !.fx.purpose = "screen_off",
                       !.fade_done_calls = IF is_idle THEN 0 ELSE @],
             is_idle)

\* Dispatch<ExtIdleNotificationV1>: the event is routed by the identity of
\* the object it is for.
DispatchIdleNotification(s, id, is_idle) ==
    IF {x.id : x \in s.screen_off_idle_notification} = Some(id)
    THEN update_screen_off_idle(
             [s EXCEPT !.fx.purpose = "screen_off",
                       !.fade_done_calls = IF is_idle THEN 0 ELSE @],
             is_idle)
    ELSE IF {x.id : x \in s.suspend_idle_notification} = Some(id)
    THEN update_suspend_idle([s EXCEPT !.fx.purpose = "suspend"], is_idle)
    ELSE s

\* The compositor sends Idled (the seat has been idle for the object's
\* timeout) or Resumed (activity after Idled) and the reactor dispatches it.
IdleNotificationEvent(n, is_idle) ==
    /\ main_thread = "dispatch"
    /\ n \in live_notifications
    /\ is_idle <=> n.id \notin idled
    /\ LET s == [St("IdleNotificationEvent") EXCEPT
                     !.fx.is_idle = is_idle,
                     !.idled = IF is_idle THEN @ \cup {n.id} ELSE @ \ {n.id}]
       IN  Commit(DispatchIdleNotification(s, n.id, is_idle))
    /\ UNCHANGED Bus

\* An Idled or Resumed event the compositor sent for a notification object
\* before it learnt of the object's destruction: the reactor dispatches it
\* for the proxy of the destroyed object.
IdleNotificationStale(is_idle) ==
    /\ main_thread = "dispatch"
    /\ superseded
    /\ LET s == [St("IdleNotificationStale") EXCEPT !.fx.is_idle = is_idle]
       IN  Commit(DispatchIdleNotification(s, SupersededId, is_idle))
    /\ UNCHANGED Bus

\* wl_display.delete_id: the compositor has acknowledged the deletions and
\* sends no more events for the destroyed objects.
DeleteId ==
    /\ superseded \/ stale_surface
    /\ superseded' = FALSE
    /\ stale_surface' = FALSE
    /\ UNCHANGED <<Reactor, main_thread>>
    /\ UNCHANGED Bus

\* Dispatch<ExtIdleNotificationV1> with an event that is neither Idled nor
\* Resumed (the Event enum is non_exhaustive): the match reaches
\* unreachable!(), which panics on the reactor's thread, and main unwinds.
IdleNotificationOther(n) ==
    /\ main_thread = "dispatch"
    /\ n \in live_notifications
    /\ Commit([St("IdleNotificationOther") EXCEPT !.main_thread = "panicked"])
    /\ UNCHANGED Bus

\* Dispatch<WlRegistry>, Event::Global.
Global(name, interface) ==
    /\ main_thread = "dispatch"
    /\ name \notin {outputs[i].global_name : i \in 1..Len(outputs)}
    /\ Len(outputs) < MaxOutputs
    /\ LET s == St("Global")
       IN  Commit(IF interface = "wl_output"
                  THEN [s EXCEPT !.outputs = Append(@, OutputNew(name))]
                  ELSE s)
    /\ UNCHANGED Bus

\* Dispatch<WlRegistry>, Event::GlobalRemove: outputs.retain(global_name != name);
\* a removed Output drops its fade surface.
GlobalRemove(name) ==
    /\ main_thread = "dispatch"
    /\ LET s == St("GlobalRemove")
           gone == {o \in Range(s.outputs) : o.global_name = name}
           dropped == UNION {o.fade_surface : o \in gone}
       IN  Commit(FadeBlackSurfaceDrop(
                      [s EXCEPT !.outputs = Retain(@, gone),
                                !.idle_outputs = @ \ {name}],
                      dropped))
    /\ UNCHANGED Bus

\* Mutant: the first output that has a fade surface, whichever it is.
FindSurface_Any(outs, surface, i) ==
    LET fading == {j \in i..Len(outs) : outs[j].fade_surface # None} IN
    IF fading = {} THEN 0 ELSE CHOOSE j \in fading : \A k \in fading : j <= k

\* The first output, from index i, whose fade surface is the given surface.
RECURSIVE FindSurface(_, _, _)
FindSurface(outs, surface, i) ==
    IF i > Len(outs) THEN 0
    ELSE IF \E f \in outs[i].fade_surface : f.surface = surface THEN i
    ELSE FindSurface(outs, surface, i + 1)

\* The only element of a Some.
Unwrap(opt) == CHOOSE x \in opt : TRUE

\* Dispatch<ZwlrLayerSurfaceV1>, Event::Configure: ack_configure, then
\* FadeBlackSurface::configure.
DispatchConfigure(s, surface) ==
    LET i == FindSurface(s.outputs, surface, 1) IN
    IF i = 0 THEN s
    ELSE LET f == Unwrap(s.outputs[i].fade_surface) IN
         IF ~f.has_first_configure
         THEN [FadeUpdate(s, f) EXCEPT
                  !.outputs[i].fade_surface =
                      Some([f EXCEPT !.has_first_configure = TRUE])]
         ELSE s

\* Dispatch<ZwlrLayerSurfaceV1> with an event other than Configure (Closed):
\* the match arm is empty.
Closed(surface) ==
    /\ main_thread = "dispatch"
    /\ surface \in live_surfaces
    /\ Commit([St("Closed") EXCEPT !.fx.surface = surface])
    /\ UNCHANGED Bus

Configure(surface) ==
    /\ main_thread = "dispatch"
    /\ surface \in live_surfaces
    /\ Commit(DispatchConfigure([St("Configure") EXCEPT !.fx.surface = surface],
                                surface))
    /\ UNCHANGED Bus

\* A Configure the compositor sent for a layer surface before it learnt of
\* its destruction.
ConfigureStale ==
    /\ main_thread = "dispatch"
    /\ stale_surface
    /\ Commit(DispatchConfigure(
                  [St("ConfigureStale") EXCEPT !.fx.surface = StaleSurfaceId],
                  StaleSurfaceId))
    /\ UNCHANGED Bus

\* Mutant: a finished fade drops its surface without powering the output off.
DispatchDone_NoOff(s, surface) ==
    LET i == FindSurface(s.outputs, surface, 1) IN
    IF i = 0 THEN s
    ELSE LET f == Unwrap(s.outputs[i].fade_surface) IN
         IF is_done(f)
         THEN LET s2 == FadeBlackSurfaceDrop(
                            [s EXCEPT !.outputs[i].fade_surface = None],
                            Some(f))
              IN  IF AllOutputsDone(s2) THEN fade_done(s2) ELSE s2
         ELSE FadeUpdate(s, f)

\* Mutant: "all outputs done" is asked before the finished surface is dropped.
DispatchDone_CheckFirst(s, surface) ==
    LET i == FindSurface(s.outputs, surface, 1) IN
    IF i = 0 THEN s
    ELSE LET f == Unwrap(s.outputs[i].fade_surface) IN
         IF is_done(f)
         THEN LET s1 == SetMode(s, i, "Off")
                  s2 == FadeBlackSurfaceDrop(
                            [s1 EXCEPT !.outputs[i].fade_surface = None],
                            Some(f))
              IN  IF AllOutputsDone(s1) THEN fade_done(s2) ELSE s2
         ELSE FadeUpdate(s, f)

\* Dispatch<WlCallback, WlSurface>, Event::Done.
DispatchDone(s, surface) ==
    LET i == FindSurface(s.outputs, surface, 1) IN
    IF i = 0 THEN s
    ELSE LET f == Unwrap(s.outputs[i].fade_surface) IN
         IF is_done(f)
         THEN LET s1 == SetMode(s, i, "Off")
                  s2 == FadeBlackSurfaceDrop(
                            [s1 EXCEPT !.outputs[i].fade_surface = None],
                            Some(f))
              IN  IF AllOutputsDone(s2) THEN fade_done(s2) ELSE s2
         ELSE FadeUpdate(s, f)

\* The compositor completes a requested frame.
Done(surface) ==
    /\ main_thread = "dispatch"
    /\ surface \in callbacks
    /\ Commit(DispatchDone([St("Done") EXCEPT !.callbacks = @ \ {surface},
                                              !.fx.surface = surface],
                           surface))
    /\ UNCHANGED Bus

\* A frame callback the compositor completed before it learnt of the
\* destruction of the callback's surface.
DoneStale ==
    /\ main_thread = "dispatch"
    /\ stale_surface
    /\ Commit(DispatchDone([St("DoneStale") EXCEPT !.fx.surface = StaleSurfaceId],
                           StaleSurfaceId))
    /\ UNCHANGED Bus

\* The suspend command exits; status() returns, the exit status is logged
\* and the handler returns to the event loop.
SuspendExit ==
    /\ main_thread = "status"
    /\ main_thread' = "dispatch"
    /\ UNCHANGED <<Reactor, superseded, stale_surface>>
    /\ UNCHANGED Bus

\* Time passes: every started.elapsed() grows by the same amount.
Tick ==
    /\ main_thread # "panicked"
    /\ \E i \in 1..Len(outputs) : \E f \in outputs[i].fade_surface :
           f.elapsed < MaxElapsed
    /\ outputs' =
           [i \in 1..Len(outputs) |->
               [outputs[i] EXCEPT !.fade_surface =
                   {[f EXCEPT !.elapsed = Min(@ + TickMs, MaxElapsed)] : f \in @}]]
    /\ fx' = Fx("Tick")
    /\ UNCHANGED <<conf, on_battery, screensaver_inhibited,
                   screen_off_idle_notification, suspend_idle_notification,
                   live_notifications, idled, superseded, live_surfaces,
                   callbacks, stale_surface, main_thread, fade_done_calls,
                   idle_outputs>>
    /\ UNCHANGED Bus

\* ------------------------------------------------------------- background

\* iter().position(|x| x.cookie == cookie): the index of the first inhibitor
\* with the cookie, an Option.
position(vec, cookie) ==
    LET found == {i \in 1..Len(vec) : vec[i].cookie = cookie} IN
    IF found = {} THEN None
    ELSE Some(CHOOSE i \in found : \A j \in found : i <= j)

\* Mutant: the element and everything after it is removed.
remove_Truncate(vec, idx) == SubSeq(vec, 1, idx - 1)

\* Vec::remove(idx).
remove(vec, idx) ==
    [i \in 1..(Len(vec) - 1) |-> IF i < idx THEN vec[i] ELSE vec[i + 1]]

\* Mutant: the registry always counts as empty.
is_empty_Always(vec) == TRUE

\* Vec::is_empty.
is_empty(vec) == vec = <<>>

\* Mutant: the channel hands out the newest message first.
Send_Front(event) == channel' = <<event>> \o channel

\* event_sender.send(event).
Send(event) == channel' = Append(channel, event)

\* receive_battery_task: UPower's OnBattery changed.  The task is polled by
\* the event loop's executor, on the reactor's thread.
ReceiveBattery(value) ==
    /\ main_thread = "dispatch"
    /\ Len(channel) < MaxChannel
    /\ Send([type |-> "OnBattery", value |-> value])
    /\ UNCHANGED <<inhibitors, last_cookie, inhibit_calls, bus_op>>
    /\ UNCHANGED <<Reactor, main_thread, superseded, stale_surface>>

\* Screensaver::inhibit; sender is header.sender(), an Option.  The cookie is
\* last_cookie.fetch_add(1) + 1: fetch_add stores the wrapped sum and returns
\* the old value.  At u32::MAX the "+ 1" overflows: a build with overflow
\* checks panics there, after the store and before anything else; a build
\* without them wraps to 0.
Inhibit(sender, overflow_checks) ==
    /\ main_thread # "panicked"
    /\ Len(channel) < MaxChannel
    /\ Len(inhibitors) < MaxInhibitors
    /\ inhibit_calls < MaxCookie
    /\ inhibit_calls' = inhibit_calls + 1
    /\ bus_op' = BusOp("Inhibit", 0)
    /\ last_cookie' = wrapping_add_1(last_cookie)
    /\ IF last_cookie = U32_MAX /\ overflow_checks
       THEN UNCHANGED <<channel, inhibitors>>
       ELSE LET cookie == wrapping_add_1(last_cookie) IN
            IF sender # None
            THEN /\ IF is_empty(inhibitors)
                    THEN Send([type |-> "ScreensaverInhibit", value |-> TRUE])
                    ELSE UNCHANGED channel
                 /\ inhibitors' =
                        Append(inhibitors,
                               [cookie |-> cookie, client |-> Unwrap(sender)])
            ELSE UNCHANGED <<channel, inhibitors>>
    /\ UNCHANGED <<Reactor, main_thread, superseded, stale_surface>>

\* Screensaver::un_inhibit.
UnInhibit(cookie) ==
    /\ main_thread # "panicked"
    /\ Len(channel) < MaxChannel
    /\ LET idx == position(inhibitors, cookie) IN
       IF idx # None
       THEN LET rest == remove(inhibitors, Unwrap(idx))
            IN  /\ inhibitors' = rest
                /\ IF is_empty(rest)
                   THEN Send([type |-> "ScreensaverInhibit", value |-> FALSE])
                   ELSE UNCHANGED channel
       ELSE UNCHANGED <<channel, inhibitors>>
    /\ bus_op' = BusOp("UnInhibit", Len(inhibitors) - Len(inhibitors'))
    /\ UNCHANGED <<last_cookie, inhibit_calls>>
    /\ UNCHANGED <<Reactor, main_thread, superseded, stale_surface>>

\* serve: one NameOwnerChanged signal; unique says whether the name is a
\* unique bus name, new_owner is the Option of the signal.  The loop is part
\* of the serve future, polled on the reactor's thread.
NameOwnerChanged(name, unique, new_owner) ==
    /\ main_thread = "dispatch"
    /\ Len(channel) < MaxChannel
    /\ IF new_owner = None /\ unique /\ ~is_empty(inhibitors)
       THEN LET rest == Retain(inhibitors,
                               {x \in Range(inhibitors) : x.client = name})
            IN  /\ inhibitors' = rest
                /\ IF is_empty(rest)
                   THEN Send([type |-> "ScreensaverInhibit", value |-> FALSE])
                   ELSE UNCHANGED channel
       ELSE UNCHANGED <<channel, inhibitors>>
    /\ bus_op' = BusOp("NameOwnerChanged", Len(inhibitors) - Len(inhibitors'))
    /\ UNCHANGED <<last_cookie, inhibit_calls>>
    /\ UNCHANGED <<Reactor, main_thread, superseded, stale_surface>>

\* ---------------------------------------------------------- specification

\* header.sender() of a method call: absent, or the caller's unique name.
Senders == {None} \cup {Some(c) : c \in Clients}

\* Cookies a client passes to UnInhibit: the first ones handed out, and the
\* ones around the counter's wrap.
Cookies == {U32(0, n) : n \in 0..MaxCookie} \cup {U32_MAX}

Next ==
    \/ \E c \in Configs : ConfigUpdate(c)
    \/ HandleEvent
    \/ \E n \in live_notifications, is_idle \in BOOLEAN :
           IdleNotificationEvent(n, is_idle)
    \/ \E name \in OutputNames, interface \in {"wl_output", "wl_seat"} :
           Global(name, interface)
    \/ \E name \in OutputNames : GlobalRemove(name)
    \/ \E surface \in live_surfaces : Configure(surface)
    \/ \E surface \in live_surfaces : Closed(surface)
    \/ \E n \in live_notifications : IdleNotificationOther(n)
    \/ \E is_idle \in BOOLEAN : IdleNotificationStale(is_idle)
    \/ ConfigureStale
    \/ DoneStale
    \/ DeleteId
    \/ \E surface \in callbacks : Done(surface)
    \/ SuspendExit
    \/ Tick
    \/ \E value \in BOOLEAN : ReceiveBattery(value)
    \/ \E sender \in Senders, overflow_checks \in BOOLEAN :
           Inhibit(sender, overflow_checks)
    \/ \E cookie \in Cookies : UnInhibit(cookie)
    \/ \E name \in Clients, unique \in BOOLEAN,
          new_owner \in {None, Some(":1.9")} :
           NameOwnerChanged(name, unique, new_owner)

\* The whole program: the reactor and the background tasks.
Spec == Init /\ [][Next]_vars

\* The idle timer set: what recomputes the subscriptions and what feeds it,
\* with the outputs listed at startup, one client of the registry at a
\* time, which inhibits and releases, and a power source that changes after
\* the reactor has taken the previous change from the channel.
NextTimers ==
    \/ \E c \in Configs : ConfigUpdate(c)
    \/ HandleEvent
    \/ \E n \in live_notifications, is_idle \in BOOLEAN :
           IdleNotificationEvent(n, is_idle)
    \/ SuspendExit
    \/ \E value \in BOOLEAN : channel = <<>> /\ ReceiveBattery(value)
    \/ \E sender \in Senders, overflow_checks \in BOOLEAN :
           is_empty(inhibitors) /\ Inhibit(sender, overflow_checks)
    \/ \E cookie \in Cookies : UnInhibit(cookie)

SpecTimers == Init /\ [][NextTimers]_vars

\* The display side: everything the Wayland connection and the config
\* watcher dispatch, with no message on the channel.
NextDisplay ==
    \/ \E c \in Configs : ConfigUpdate(c)
    \/ \E n \in live_notifications, is_idle \in BOOLEAN :
           IdleNotificationEvent(n, is_idle)
    \/ \E name \in OutputNames, interface \in {"wl_output", "wl_seat"} :
           Global(name, interface)
    \/ \E name \in OutputNames : GlobalRemove(name)
    \/ \E surface \in live_surfaces : Configure(surface)
    \/ \E surface \in live_surfaces : Closed(surface)
    \/ \E n \in live_notifications : IdleNotificationOther(n)
    \/ \E surface \in callbacks : Done(surface)
    \/ SuspendExit
    \/ Tick

SpecDisplay == Init /\ [][NextDisplay]_vars

\* The display side with a compositor that is behind: what it sent for an
\* object before it read the object's destruction arrives afterwards.
NextStale ==
    \/ \E c \in Configs : ConfigUpdate(c)
    \/ \E n \in live_notifications, is_idle \in BOOLEAN :
           IdleNotificationEvent(n, is_idle)
    \/ \E name \in OutputNames : Global(name, "wl_output")
    \/ \E name \in OutputNames : GlobalRemove(name)
    \/ \E surface \in live_surfaces : Configure(surface)
    \/ \E surface \in callbacks : Done(surface)
    \/ \E is_idle \in BOOLEAN : IdleNotificationStale(is_idle)
    \/ ConfigureStale
    \/ DoneStale
    \/ DeleteId
    \/ SuspendExit
    \/ Tick

SpecStale == Init /\ [][NextStale]_vars

\* The display side with a compositor that follows the protocols, under the
\* config loaded at startup: no subscription is recreated.
NextFade ==
    \/ \E n \in live_notifications, is_idle \in BOOLEAN :
           IdleNotificationEvent(n, is_idle)
    \/ \E name \in OutputNames : Global(name, "wl_output")
    \/ \E name \in OutputNames : GlobalRemove(name)
    \/ \E surface \in live_surfaces : Configure(surface)
    \/ \E surface \in callbacks : Done(surface)
    \/ SuspendExit
    \/ Tick

\* The compositor sends layer surfaces their configure and completes
\* requested frames, and the event loop dispatches them whenever it runs;
\* the suspend command exits; time passes.
FairFade ==
    /\ SF_vars(\E surface \in live_surfaces : Configure(surface))
    /\ SF_vars(\E surface \in callbacks : Done(surface))
    /\ WF_vars(SuspendExit)
    /\ WF_vars(Tick)

SpecFade == Init /\ [][NextFade]_vars /\ FairFade

\* The program with its cookie counter at u32::MAX: 2^32 - 1 Inhibit calls
\* after startup, none of them handled by the reactor yet.  Every call adds
\* one to the counter, so the counter gets there; the registry is empty (every
\* caller left again, or had no sender), or still holds the first caller's
\* inhibitor, whose message then waits in the channel.
InitWrap ==
    /\ \E c \in Configs, outs \in InitialOutputs :
           IsState(recreate_notification(Constructed(c, outs)))
    /\ last_cookie = U32_MAX
    /\ inhibit_calls = 0
    /\ bus_op = BusOp("serve", 0)
    /\ \/ inhibitors = <<>> /\ channel = <<>>
       \/ /\ inhibitors \in {<<[cookie |-> U32(0, 1), client |-> c]>> : c \in Clients}
          /\ channel = <<[type |-> "ScreensaverInhibit", value |-> TRUE]>>

\* The channel's two senders, the inhibitor registry and the battery task,
\* and the reactor's handling of their messages.
NextBus ==
    \/ HandleEvent
    \/ \E value \in BOOLEAN : ReceiveBattery(value)
    \/ \E sender \in Senders, overflow_checks \in BOOLEAN :
           Inhibit(sender, overflow_checks)
    \/ \E cookie \in Cookies : UnInhibit(cookie)
    \/ \E name \in Clients, unique \in BOOLEAN,
          new_owner \in {None, Some(":1.9")} :
           NameOwnerChanged(name, unique, new_owner)

\* The registry from startup.
SpecBus == Init /\ [][NextBus]_vars

\* The registry with its counter about to wrap.
SpecWrap == InitWrap /\ [][NextBus]_vars

\* ------------------------------------------------------------------ claims

\* The timeouts the specification derives from the orchestrator's state.
ScreenOffTarget == IF screensaver_inhibited THEN None ELSE conf.screen_off_time

SuspendTarget ==
    IF screensaver_inhibited THEN None
    ELSE IF on_battery THEN conf.suspend_on_battery_time
    ELSE conf.suspend_on_ac_time

TimeOf(notification) == {x.time : x \in notification}

\* A step in which the reactor dispatched something.
Dispatched == Reactor' # Reactor

ScreenOffIdled(f) ==
    f.op = "IdleNotificationEvent" /\ f.purpose = "screen_off" /\ f.is_idle

ScreenOffResumed(f) ==
    f.op = "IdleNotificationEvent" /\ f.purpose = "screen_off" /\ ~f.is_idle

\* The compositor's last event on the current screen-off subscription was Idled.
ScreenOffIdle == \E n \in screen_off_idle_notification : n.id \in idled

NoFadeSurface == \A i \in 1..Len(outputs) : outputs[i].fade_surface = None

\* C1: after the reactor has processed a config update or a channel message
\* (inhibitor aggregate, OnBattery), each purpose's subscription has exactly
\* its derived target timeout, and exists iff that target is not None.
C1_SubscriptionsMatchTargets ==
    fx.op \in {"ConfigUpdate", "HandleEvent"} =>
        /\ TimeOf(screen_off_idle_notification) = ScreenOffTarget
        /\ TimeOf(suspend_idle_notification) = SuspendTarget

\* C2: with screen_off_time = Some(600000), suspend_on_ac_time = Some(1200000)
\* and on_battery = false, once the reactor has handled the inhibitor
\* aggregate no subscription is live while it is true, and both are live with
\* exactly those timeouts while it is false.
C2_InhibitDestroysAndRestores ==
    (/\ fx.op = "HandleEvent" /\ fx.purpose = "ScreensaverInhibit"
     /\ conf.screen_off_time = Some(600000)
     /\ conf.suspend_on_ac_time = Some(1200000)
     /\ ~on_battery) =>
        IF screensaver_inhibited
        THEN /\ screen_off_idle_notification = None
             /\ suspend_idle_notification = None
             /\ live_notifications = {}
        ELSE /\ TimeOf(screen_off_idle_notification) = Some(600000)
             /\ TimeOf(suspend_idle_notification) = Some(1200000)
             /\ Cardinality(live_notifications) = 2

\* C3: a recompute that directly follows a recompute, on the same config,
\* on_battery and inhibited, creates no subscription, destroys none, drops no
\* fade surface and requests no output power mode.
C3_RecomputeIdempotent ==
    fx.repeat =>
        /\ fx.created = {}
        /\ fx.destroyed = {}
        /\ fx.dropped = {}
        /\ fx.set_mode = {}

\* C3's case: a repeated recompute with both subscriptions live and a fade
\* surface it could have dropped.
C3_Witness ==
    /\ fx.repeat
    /\ screen_off_idle_notification # None
    /\ suspend_idle_notification # None
    /\ ~NoFadeSurface

\* The notification objects alive at the compositor are the ones the two
\* Option fields hold: one at most per purpose, and no other.
NotificationsHeld ==
    /\ Cardinality(screen_off_idle_notification) <= 1
    /\ Cardinality(suspend_idle_notification) <= 1
    /\ screen_off_idle_notification \cap suspend_idle_notification = {}
    /\ live_notifications =
           screen_off_idle_notification \cup suspend_idle_notification
    /\ Cardinality({n.id : n \in live_notifications}) =
           Cardinality(live_notifications)

\* A subscription that was replaced had a timeout other than the desired one
\* (the one recreate_notification compares with, and the derived target), and
\* is destroyed.
ReplacedRight(old, new, desired, target, live) ==
    (old # None /\ new # old) =>
        /\ TimeOf(old) # desired
        /\ TimeOf(old) # target
        /\ old \cap live = {}

\* C4: per purpose at most one idle-notification object is created and not
\* yet destroyed; a subscription is replaced only when the desired timeout
\* differs from its own, and the replaced one is destroyed.
C4_OneLiveSubscription ==
    /\ NotificationsHeld
    /\ [][/\ NotificationsHeld'
          /\ ReplacedRight(screen_off_idle_notification,
                           screen_off_idle_notification',
                           conf'.screen_off_time, ScreenOffTarget',
                           live_notifications')
          /\ ReplacedRight(suspend_idle_notification,
                           suspend_idle_notification',
                           IF on_battery' THEN conf'.suspend_on_battery_time
                           ELSE conf'.suspend_on_ac_time,
                           SuspendTarget', live_notifications')]_vars

\* C4's case: a dispatch after startup replaced the suspend subscription by
\* a new object with another timeout and destroyed the old one, next to a
\* screen-off subscription it kept.
C4_Witness ==
    /\ fx.op # "main"
    /\ Cardinality(fx.destroyed) = 1
    /\ {n.id : n \in suspend_idle_notification} = fx.created
    /\ Cardinality(fx.created) = 1
    /\ screen_off_idle_notification # None

\* C5: the screen-off Idled event gives every Output in the registry a fade
\* surface of its own and changes no Output's power mode.
C5_IdledFadesEveryOutput ==
    [][(Dispatched /\ ScreenOffIdled(fx')) =>
          /\ Len(outputs') = Len(outputs)
          /\ \A i \in 1..Len(outputs) :
                /\ outputs'[i].global_name = outputs[i].global_name
                /\ outputs'[i].output_power = outputs[i].output_power
                /\ outputs'[i].fade_surface # None
                /\ \A f \in outputs'[i].fade_surface :
                      /\ f.surface \in live_surfaces'
                      /\ \A j \in 1..Len(outputs) : \A g \in outputs'[j].fade_surface :
                            g.surface = f.surface => j = i
          /\ Cardinality(live_surfaces') = Len(outputs)
          /\ fx'.set_mode = {}]_vars

\* C5's case: Idled was dispatched with two Outputs in the registry.
C5_Witness ==
    /\ ScreenOffIdled(fx)
    /\ Len(outputs) = 2
    /\ Cardinality(live_surfaces) = 2

\* C6: after the screen-off Resumed event no Output has a fade surface and
\* every Output has been requested On and is On.
C6_ResumedPowersOn ==
    ScreenOffResumed(fx) =>
        /\ live_surfaces = {}
        /\ callbacks = {}
        /\ \A i \in 1..Len(outputs) :
              /\ outputs[i].fade_surface = None
              /\ outputs[i].output_power = "On"
              /\ <<outputs[i].global_name, "On">> \in fx.set_mode

\* C6's case: Resumed found two Outputs in different stages, one still fading
\* (its surface was dropped) and one not.
C6_Witness ==
    /\ ScreenOffResumed(fx)
    /\ Len(outputs) = 2
    /\ Cardinality(fx.dropped) = 1

\* An Output's state agrees with an Idled event: Off, or still fading.
ConsistentIdle(o) == o.output_power = "Off" \/ o.fade_surface # None

\* C7 as claimed: never more fade surfaces than Outputs, and every Output is
\* On when the last screen-off event was Resumed, Off or fading when it was Idled.
C7_EveryOutputConsistent ==
    /\ Cardinality(live_surfaces) <= Len(outputs)
    /\ \A i \in 1..Len(outputs) :
          IF ScreenOffIdle THEN ConsistentIdle(outputs[i])
          ELSE outputs[i].output_power = "On"

\* C7 amended: never more fade surfaces than Outputs; every Output is On with
\* no fade surface unless the last screen-off event was Idled, and then the
\* Outputs that event reached are Off or fading, while an Output added after
\* it is On with no fade surface.
C7_ReachedOutputsConsistent ==
    /\ Cardinality(live_surfaces) <= Len(outputs)
    /\ \A i \in 1..Len(outputs) :
          IF ScreenOffIdle /\ outputs[i].global_name \in idle_outputs
          THEN ConsistentIdle(outputs[i])
          ELSE outputs[i].output_power = "On" /\ outputs[i].fade_surface = None

\* C7's case: idle, with an Output the Idled event reached that is Off, and
\* one added afterwards.
C7_Witness ==
    /\ ScreenOffIdle
    /\ \E i, j \in 1..Len(outputs) :
          /\ outputs[i].global_name \in idle_outputs
          /\ outputs[i].output_power = "Off"
          /\ outputs[j].global_name \notin idle_outputs

\* C8: an Output is powered Off only by a frame callback for its own live
\* fade surface that is older than FADE_TIME; a callback for a fade surface
\* no older than FADE_TIME requests the next frame and leaves the Outputs,
\* their power modes and fade surfaces as they were.
C8_OffOnlyAfterFadeTime ==
    [][Dispatched =>
          /\ \A i \in 1..Len(outputs') :
                (/\ outputs'[i].output_power = "Off"
                 /\ \A j \in 1..Len(outputs) :
                       outputs[j].global_name = outputs'[i].global_name
                           => outputs[j].output_power # "Off")
                    => <<outputs'[i].global_name, "Off">> \in fx'.set_mode
          /\ \A m \in fx'.set_mode :
                m[2] = "Off" =>
                    /\ fx'.op = "Done"
                    /\ \E j \in 1..Len(outputs) :
                          /\ outputs[j].global_name = m[1]
                          /\ \E f \in outputs[j].fade_surface :
                                /\ f.surface = fx'.surface
                                /\ f.surface \in live_surfaces
                                /\ f.elapsed > FADE_TIME
          /\ fx'.op = "Done" =>
                \A j \in 1..Len(outputs) : \A f \in outputs[j].fade_surface :
                    (f.surface = fx'.surface /\ f.elapsed <= FADE_TIME) =>
                        /\ outputs' = outputs
                        /\ f.surface \in callbacks'
                        /\ fx'.set_mode = {}]_vars

\* C8's case: a frame callback was dispatched for a fade surface exactly
\* FADE_TIME old, which is still there with its Output On.
C8_Witness ==
    /\ fx.op = "Done"
    /\ \E i \in 1..Len(outputs) : \E f \in outputs[i].fade_surface :
          /\ f.surface = fx.surface
          /\ f.elapsed = FADE_TIME
          /\ f.surface \in callbacks
          /\ outputs[i].output_power = "On"

\* A frame callback that completed a fade.
FadeCompleted(f) == f.op = "Done" /\ f.set_mode # {}

\* C9: fade_done is called at most once per screen-off Idled event: by the
\* frame callback that completes the last fade surface, and by no dispatch
\* that leaves a fade surface or completes none.
C9_LockScheduledOnce ==
    /\ fade_done_calls <= 1
    /\ fx.fade_done = IF FadeCompleted(fx) /\ NoFadeSurface THEN 1 ELSE 0

\* C9's case: two Outputs faded, the second completed and the lock was
\* scheduled then.
C9_Witness ==
    /\ fx.fade_done = 1
    /\ fade_done_calls = 1
    /\ Len(outputs) = 2
    /\ \A i \in 1..Len(outputs) :
          /\ outputs[i].output_power = "Off"
          /\ outputs[i].global_name \in idle_outputs

\* C10 as claimed: when fade_done is called every Output in the registry is Off.
C10_LockMeansAllOff ==
    fx.fade_done > 0 =>
        \A i \in 1..Len(outputs) : outputs[i].output_power = "Off"

\* C10 amended: when fade_done is called no Output has a fade surface, every
\* Output the Idled event reached is Off, and an Output added after it is On.
C10_LockMeansFadedOff ==
    fx.fade_done > 0 =>
        \A i \in 1..Len(outputs) :
            /\ outputs[i].fade_surface = None
            /\ outputs[i].output_power =
                   IF outputs[i].global_name \in idle_outputs THEN "Off" ELSE "On"

\* C10's case: the lock is scheduled with one Output faded and one added
\* after the Idled event.
C10_Witness ==
    /\ fx.fade_done > 0
    /\ \E i, j \in 1..Len(outputs) :
          /\ outputs[i].global_name \in idle_outputs
          /\ outputs[j].global_name \notin idle_outputs

SuspendIdled(f) ==
    f.op = "IdleNotificationEvent" /\ f.purpose = "suspend" /\ f.is_idle

\* C11: a dispatch runs the suspend command once if it is the Idled event of
\* the suspend subscription and never otherwise (Resumed, a recreation of a
\* subscription, a screen-off event, any other handler); an idle-notification
\* event changes neither conf, on_battery nor the inhibited flag, and
\* replaces no subscription.
C11_SuspendOncePerIdle ==
    /\ fx.suspend = 0
    /\ [][/\ fx'.suspend = IF SuspendIdled(fx') THEN 1 ELSE 0
          /\ (Dispatched /\ fx'.op = "IdleNotificationEvent") =>
                UNCHANGED <<conf, on_battery, screensaver_inhibited,
                            screen_off_idle_notification,
                            suspend_idle_notification, live_notifications>>]_vars

\* C11's case: the Idled event of the suspend subscription was dispatched,
\* next to a live screen-off subscription, and ran the command once.
C11_Witness ==
    /\ SuspendIdled(fx)
    /\ fx.suspend = 1
    /\ screen_off_idle_notification # None

\* C12: the reactor's thread is never waiting for an external process: it is
\* in the event loop's dispatch whenever a handler has run, also while the
\* suspend command runs.
C12_ReactorNeverBlocked == main_thread # "status"

\* A step of the inhibitor registry put the aggregate signal on the channel.
Emitted ==
    IF Len(channel') > Len(channel) /\ channel'[Len(channel')].type = "ScreensaverInhibit"
    THEN {channel'[Len(channel')].value}
    ELSE {}

\* C13: a step emits the aggregate signal exactly when the registry goes
\* from empty to non-empty (value true) or from non-empty to empty (value
\* false), once, and no step emits it otherwise; so the signals emitted over
\* a trace are as many as its empty/non-empty transitions.
C13_SignalOnTransitionsOnly ==
    [][Emitted = IF (inhibitors = <<>>) # (inhibitors' = <<>>)
                 THEN {inhibitors' # <<>>}
                 ELSE {}]_vars

\* C13's case: after an intermediate count (the second Inhibit found the
\* channel empty and left it so), a disconnect removed two inhibitors at once
\* and one signal, false, is on the channel.
C13_Witness ==
    /\ bus_op = BusOp("NameOwnerChanged", 2)
    /\ inhibitors = <<>>
    /\ channel = <<[type |-> "ScreensaverInhibit", value |-> FALSE]>>

\* C14: a NameOwnerChanged signal with no new owner for a unique name leaves
\* in the registry the inhibitors of the other clients, cookies and order as
\* they were, and none of the name's; a signal with a new owner or for a
\* well-known name leaves the registry as it is.
C14_DisconnectRemovesOwned ==
    [][\A name \in Clients, unique \in BOOLEAN, new_owner \in {None, Some(":1.9")} :
          NameOwnerChanged(name, unique, new_owner) =>
              inhibitors' =
                  IF new_owner = None /\ unique
                  THEN SelectSeq(inhibitors, LAMBDA x : x.client # name)
                  ELSE inhibitors]_vars

\* C14's case: a disconnect removed one client's inhibitor and kept the
\* other client's.
C14_Witness ==
    /\ bus_op = BusOp("NameOwnerChanged", 1)
    /\ Len(inhibitors) = 1

CookiesDistinct ==
    \A i, j \in 1..Len(inhibitors) :
        inhibitors[i].cookie = inhibitors[j].cookie => i = j

\* C15: no two inhibitors in the registry have the same cookie, and every
\* Inhibit call takes the counter, and the cookie it registers, to the
\* previous cookie plus 1, also past u32::MAX.
C15_CookiesUniqueMonotonic ==
    /\ CookiesDistinct
    /\ [][/\ CookiesDistinct'
          /\ inhibit_calls' # inhibit_calls =>
                /\ last_cookie # U32_MAX
                /\ last_cookie' = wrapping_add_1(last_cookie)
                /\ Len(inhibitors') > Len(inhibitors) =>
                      inhibitors'[Len(inhibitors')].cookie = last_cookie']_vars

\* C16: UnInhibit(cookie) with no inhibitor of that cookie in the registry
\* changes neither the registry nor the channel; with one, the registry
\* loses one inhibitor of that cookie and keeps the others, in order.
C16_UnInhibitUnknownIsNoOp ==
    [][\A cookie \in Cookies :
          UnInhibit(cookie) =>
              LET held == {i \in 1..Len(inhibitors) : inhibitors[i].cookie = cookie} IN
              IF held = {}
              THEN inhibitors' = inhibitors /\ channel' = channel
              ELSE \E i \in held :
                      inhibitors' = SubSeq(inhibitors, 1, i - 1) \o
                                    SubSeq(inhibitors, i + 1, Len(inhibitors))]_vars

\* C16's case: an UnInhibit that removed nothing although the registry holds
\* an inhibitor, after two Inhibit calls.
C16_Witness ==
    /\ bus_op = BusOp("UnInhibit", 0)
    /\ inhibitors # <<>>
    /\ inhibit_calls = 2

\* The fade surfaces the Outputs in the registry own.
Owned ==
    {f.surface : f \in UNION {outputs[i].fade_surface : i \in 1..Len(outputs)}}

\* C17: every live fade surface is owned by an Output in the registry; a
\* GlobalRemove destroys the fade surface of the Output it removes, with its
\* frame callback, removes that Output and no other, and leaves the other
\* Outputs' power modes and fade surfaces as they were.
C17_RemovalTearsDownFade ==
    /\ live_surfaces \subseteq Owned
    /\ [][/\ live_surfaces' \subseteq Owned'
          /\ \A name \in OutputNames :
                GlobalRemove(name) =>
                    /\ outputs' = SelectSeq(outputs, LAMBDA o : o.global_name # name)
                    /\ fx'.set_mode = {}
                    /\ \A o \in Range(outputs) :
                          o.global_name = name =>
                              \A f \in o.fade_surface :
                                  /\ f.surface \in fx'.dropped
                                  /\ f.surface \notin live_surfaces'
                                  /\ f.surface \notin callbacks']_vars

\* C17's case: a GlobalRemove took away an Output in the middle of its fade
\* while another Output goes on fading.
C17_Witness ==
    /\ fx.op = "GlobalRemove"
    /\ fx.dropped # {}
    /\ ~NoFadeSurface

\* C18: no handler panics on a protocol event it does not expect: after an
\* idle-notification event that is neither Idled nor Resumed, or a layer
\* surface event other than Configure, the reactor is running and the
\* subscriptions, Outputs, fade surfaces and flags are as before.
C18_UnexpectedEventsIgnored ==
    [][/\ main_thread' # "panicked"
       /\ fx'.op \in {"IdleNotificationOther", "Closed"} =>
             UNCHANGED <<conf, on_battery, screensaver_inhibited,
                         screen_off_idle_notification, suspend_idle_notification,
                         outputs, live_notifications, live_surfaces>>]_vars

\* C19: a dispatch that replaces or removes the screen-off subscription
\* leaves no Output with a fade surface, no fade surface alive, every Output
\* On with a set_mode(On) request sent to it, and the new subscription not
\* idle, whatever the Outputs were before.
C19_RecreationForcesNotIdle ==
    [][screen_off_idle_notification' # screen_off_idle_notification =>
          /\ NoFadeSurface'
          /\ live_surfaces' = {}
          /\ callbacks' = {}
          /\ \A i \in 1..Len(outputs') :
                /\ outputs'[i].output_power = "On"
                /\ <<outputs'[i].global_name, "On">> \in fx'.set_mode
          /\ ~ScreenOffIdle']_vars

\* C19's case: a recompute destroyed the screen-off subscription in the
\* middle of a fade, with two Outputs in the registry; the fade surfaces are
\* gone and both Outputs were set On.
C19_Witness ==
    /\ Recomputed(fx)
    /\ fx.destroyed # {}
    /\ fx.dropped # {}
    /\ Cardinality(fx.set_mode) = 2
    /\ fade_done_calls = 0
    /\ idle_outputs = {}

\* A dispatch that ran recreate_notification.
Recompute == Dispatched /\ Recomputed(fx')

\* C20: a recompute across which only the suspend target changed leaves the
\* screen-off subscription, the Outputs and the fade surfaces as they were
\* and sends no set_mode; a recompute across which only the screen-off
\* target changed leaves the suspend subscription as it was and runs no
\* suspend command.
C20_PurposesIndependent ==
    [][/\ (Recompute /\ ScreenOffTarget' = ScreenOffTarget
                     /\ SuspendTarget' # SuspendTarget) =>
             /\ UNCHANGED <<screen_off_idle_notification, outputs, live_surfaces>>
             /\ fx'.set_mode = {}
             /\ fx'.dropped = {}
       /\ (Recompute /\ SuspendTarget' = SuspendTarget
                     /\ ScreenOffTarget' # ScreenOffTarget) =>
             /\ UNCHANGED suspend_idle_notification
             /\ fx'.suspend = 0]_vars

\* The aggregate values the reactor has not handled yet, oldest first, after
\* the one it handled last (the flag).
Pending ==
    LET aggregate == SelectSeq(channel, LAMBDA m : m.type = "ScreensaverInhibit")
    IN  <<screensaver_inhibited>> \o [i \in 1..Len(aggregate) |-> aggregate[i].value]

\* C21: the aggregate messages alternate, from true on: each one on the
\* channel is the negation of the one before it, the oldest of the one the
\* reactor handled last (false at startup), and the newest says whether the
\* registry is non-empty; so with no aggregate message left on the channel
\* the inhibited flag equals (registry is non-empty).
C21_AggregateAlternates ==
    /\ \A i \in 1..(Len(Pending) - 1) : Pending[i + 1] = ~Pending[i]
    /\ Pending[Len(Pending)] = (inhibitors # <<>>)
    /\ channel = <<>> => (screensaver_inhibited <=> inhibitors # <<>>)

\* C21's case: the reactor lags two transitions behind: it handled the first
\* Inhibit, and the release and the second Inhibit wait on the channel.
C21_Witness ==
    /\ screensaver_inhibited
    /\ channel = <<[type |-> "ScreensaverInhibit", value |-> FALSE],
                   [type |-> "ScreensaverInhibit", value |-> TRUE]>>
    /\ bus_op = BusOp("Inhibit", 0)
    /\ Len(inhibitors) = 1
\* C22: an Idled or Resumed event for a notification object that was
\* destroyed, and so is neither the current screen-off nor the current
\* suspend subscription, creates and drops no fade surface, sets no Output's
\* power mode, runs no suspend command, and leaves the subscriptions, the
\* Outputs and the reactor as they were.
C22_SupersededEventIgnored ==
    [][\A is_idle \in BOOLEAN :
          IdleNotificationStale(is_idle) =>
              /\ SupersededId \notin {n.id : n \in live_notifications}
              /\ fx'.dropped = {}
              /\ fx'.set_mode = {}
              /\ fx'.suspend = 0
              /\ fx'.fade_done = 0
              /\ UNCHANGED <<outputs, live_surfaces, callbacks,
                             screen_off_idle_notification,
                             suspend_idle_notification, live_notifications,
                             idled, main_thread, fade_done_calls>>]_vars

\* C22's case: a stale Resumed was dispatched while both purposes have a
\* current subscription, the screen-off one idle, and an Output is fading.
C22_Witness ==
    /\ fx.op = "IdleNotificationStale"
    /\ ~fx.is_idle
    /\ ScreenOffIdle
    /\ suspend_idle_notification # None
    /\ ~NoFadeSurface
\* C23: a frame callback or a configure for a fade surface that was dropped
\* sets no Output's power mode, schedules no lock, requests no frame and
\* leaves the Outputs and their fade surfaces, newer ones for the same
\* Output among them, as they were; and unless the last event of the current
\* screen-off subscription was Idled, every Output is On with no fade surface.
C23_StaleCallbackIgnored ==
    /\ [](~ScreenOffIdle => \A i \in 1..Len(outputs) :
                                /\ outputs[i].output_power = "On"
                                /\ outputs[i].fade_surface = None)
    /\ [][(ConfigureStale \/ DoneStale) =>
              /\ fx'.set_mode = {}
              /\ fx'.fade_done = 0
              /\ fx'.dropped = {}
              /\ UNCHANGED <<outputs, live_surfaces, callbacks, fade_done_calls,
                             idle_outputs, screen_off_idle_notification,
                             suspend_idle_notification, main_thread>>]_vars

\* C23's case: a stale frame callback was dispatched while an Output has a
\* newer fade surface whose fade time has passed and is still On: a callback
\* of that surface would power the Output off.
C23_Witness ==
    /\ fx.op = "DoneStale"
    /\ \E i \in 1..Len(outputs) : \E f \in outputs[i].fade_surface :
          /\ is_done(f)
          /\ f.surface \in callbacks
          /\ outputs[i].output_power = "On"
\* The Output of that name is Off and has no fade surface.
FadedOff(name) ==
    \E i \in 1..Len(outputs) :
        /\ outputs[i].global_name = name
        /\ outputs[i].output_power = "Off"
        /\ outputs[i].fade_surface = None

\* C24: once the screen-off Idled event has given the Outputs their fade
\* surfaces, a state comes in which every one of these Outputs that is
\* still in the registry is Off with no fade surface, unless a screen-off
\* Resumed or a recreation of the subscription ends the idle state before.
C24_FadeTerminates ==
    ScreenOffIdle
        ~> (~ScreenOffIdle \/ \A name \in idle_outputs : FadedOff(name))

\* C24's case: two Outputs the Idled event reached are both Off with no
\* fade surface, the subscription still idle, next to a suspend subscription.
C24_Witness ==
    /\ ScreenOffIdle
    /\ idle_outputs = {1, 2}
    /\ FadedOff(1) /\ FadedOff(2)
    /\ suspend_idle_notification # None
\* C25: once the screen-off Idled event has been dispatched, fade_done is
\* called (the delayed lock is scheduled), unless a screen-off Resumed or a
\* recreation of the subscription ends the idle state before; whatever the
\* number of Outputs, none included, and whichever Outputs are added or
\* removed during the fades.
C25_LockEventuallyScheduled ==
    ScreenOffIdled(fx) ~> (~ScreenOffIdle \/ fade_done_calls > 0)

====
